---- MODULE Spec2Model ----
(***************************************************************************)
(* A model of the mortar build core: the dependency graph and its layer-   *)
(* push scheduling (src/dag.rs) and the proot/bindfs environment command   *)
(* construction (src/env/mod.rs, src/env/ref.rs).                          *)
(*                                                                         *)
(* Rust vectors are 0-indexed, TLA+ sequences 1-indexed: layer k of the    *)
(* program is tr[k + 1] here.                                              *)
(***************************************************************************)
EXTENDS Integers, Sequences, FiniteSets, TLC

(***************************************************************************)
(* Bounds of the model.                                                    *)
(***************************************************************************)
\* Total number of dependency entries the graph may hold.
MaxEdges == 3
\* The pass counter is folded back to 1 after this value (the loop itself is
\* unbounded).
MaxScans == 3
\* Longest mapping list of an Environment.
MaxMappings == 2
\* Longest source path and alias of a Mapping rendered on its own.
MaxPathLen == 2
\* Node identifiers used by the callers of the DAG.
NodeIds == {"a", "b", "c", "d"}

\* The initial dependency lists handed to add_node: None, or Some(vec![d]).
InitDeps == {<<>>} \cup {<<d>> : d \in NodeIds}

None == "None"

VARIABLES
    graph,          \* DAG.graph: HashMap<String, Vec<String>>
    pc,             \* "build" | "scan" | "done" | "panicked"
    last,           \* the last call made on the DAG
    tr,             \* transitive_reduction: local tr
    temp_tr,        \* transitive_reduction: local temp_tr
    changed,        \* transitive_reduction: local changed
    changed_last,   \* transitive_reduction: local changed_last
    scans           \* number of completed passes of the loop (0 before the
                    \* first, folded into 1..MaxScans afterwards)

VARIABLES
    env,            \* the Environment: id, loc, inputs
    ret             \* the last call made on the Environment or on one of its
                    \* mappings, and what it returned

VARIABLES
    label           \* the last call of Label::new: its three arguments and
                    \* what it returned

dagvars == <<graph, pc, last, tr, temp_tr, changed, changed_last, scans>>

envvars == <<env, ret>>

labelvars == <<label>>

vars == <<dagvars, envvars, labelvars>>

(***************************************************************************)
(* Sequence helpers.                                                       *)
(***************************************************************************)
Range(s) == {s[i] : i \in 1..Len(s)}

Contains(s, x) == \E i \in 1..Len(s) : s[i] = x

\* Iterator::position: index of the first element equal to x, 0 when absent.
Position(s, x) ==
    IF Contains(s, x) THEN CHOOSE i \in 1..Len(s) : s[i] = x /\ \A j \in 1..(i - 1) : s[j] # x
    ELSE 0

\* Mutant of RemoveAt: removes the element after the one found.
RemoveAt_OffByOne(s, pos) == [i \in 1..(Len(s) - 1) |-> IF i <= pos THEN s[i] ELSE s[i + 1]]

\* Vec::remove(pos)
RemoveAt(s, pos) == [i \in 1..(Len(s) - 1) |-> IF i < pos THEN s[i] ELSE s[i + 1]]

\* Every ordering of a finite set (the iteration orders a HashMap may produce).
Orderings(S) == {s \in [1..Cardinality(S) -> S] : Range(s) = S}

RECURSIVE SumLen(_, _)
SumLen(f, S) ==
    IF S = {} THEN 0
    ELSE LET x == CHOOSE y \in S : TRUE IN Len(f[x]) + SumLen(f, S \ {x})

EdgeCount(g) == SumLen(g, DOMAIN g)

(***************************************************************************)
(* DAG::new                                                                *)
(***************************************************************************)
EmptyGraph == [x \in {} |-> <<>>]

NoCall == [op |-> "new", name |-> None, dep |-> None]

\* No Environment is in use.
NoEnv == [id |-> None, loc |-> <<>>, inputs |-> <<>>]

NoRet == [op |-> "none"]

EnvIdle == env = NoEnv /\ ret = NoRet

\* Label::new has not been called.
NoLabel == [op |-> "none"]

LabelIdle == label = NoLabel

DagInit ==
    /\ EnvIdle
    /\ LabelIdle
    /\ graph = EmptyGraph
    /\ pc = "build"
    /\ last = NoCall
    /\ tr = <<>>
    /\ temp_tr = <<>>
    /\ changed = FALSE
    /\ changed_last = FALSE
    /\ scans = 0

(***************************************************************************)
(* DAG::add_node: HashMap::insert, overwriting an existing entry.          *)
(***************************************************************************)
Insert(g, name, deps) ==
    [x \in (DOMAIN g) \cup {name} |-> IF x = name THEN deps ELSE g[x]]

add_node(name, deps) ==
    /\ pc = "build"
    /\ EdgeCount(Insert(graph, name, deps)) <= MaxEdges
    /\ graph' = Insert(graph, name, deps)
    /\ last' = [op |-> "add_node", name |-> name, dep |-> None]
    /\ UNCHANGED <<pc, tr, temp_tr, changed, changed_last, scans, envvars, labelvars>>

(***************************************************************************)
(* DAG::add_dep: get_mut(name).expect(..).push(dep)                        *)
(***************************************************************************)
\* Mutant of PushDep: inserts the dependency at the front of the list.
PushDep_Front(g, name, dep) == [g EXCEPT ![name] = <<dep>> \o @]

PushDep(g, name, dep) == [g EXCEPT ![name] = Append(@, dep)]

add_dep(name, dep) ==
    /\ pc = "build"
    /\ last' = [op |-> "add_dep", name |-> name, dep |-> dep]
    /\ IF name \in DOMAIN graph
       THEN /\ EdgeCount(graph) < MaxEdges
            /\ graph' = PushDep(graph, name, dep)
            /\ pc' = pc
       ELSE /\ graph' = graph
            /\ pc' = "panicked"
    /\ UNCHANGED <<tr, temp_tr, changed, changed_last, scans, envvars, labelvars>>

(***************************************************************************)
(* DAG::deps                                                               *)
(***************************************************************************)
deps(g, name) == g[name]

(***************************************************************************)
(* DAG::transitive_reduction                                               *)
(***************************************************************************)
\* The first layer: the keys of the map, in the map's iteration order.
InitialLayers(g) == {<<o>> : o \in Orderings(DOMAIN g)}

\* self.deps(item).iter().any(|x| layer.contains(x))
HasDepInLayer(g, layer, item) ==
    \E i \in 1..Len(deps(g, item)) : Contains(layer, deps(g, item)[i])

\* Mutant of MoveItem: always opens a new trailing layer for the moved item.
MoveItem_AlwaysNewLayer(tt, id, item) ==
    LET pushed == Append(tt, <<item>>)
        pos == Position(pushed[id], item)
    IN [pushed EXCEPT ![id] = RemoveAt(@, pos)]

\* The body of the `if`: push item to the next layer of tt, remove it from
\* layer id of tt (id is the 1-based index of the layer being scanned).
MoveItem(tt, id, item) ==
    LET pushed == IF id = Len(tt)
                  THEN Append(tt, <<item>>)
                  ELSE [tt EXCEPT ![id + 1] = Append(@, item)]
        pos == Position(pushed[id], item)
    IN [pushed EXCEPT ![id] = RemoveAt(@, pos)]

\* for item in layer, from the k-th item on
RECURSIVE ScanItems(_, _, _, _, _)
ScanItems(g, t, tt, id, k) ==
    IF k > Len(t[id]) THEN tt
    ELSE LET item == t[id][k]
             next == IF HasDepInLayer(g, t[id], item) THEN MoveItem(tt, id, item) ELSE tt
         IN ScanItems(g, t, next, id, k + 1)

\* for (id, layer) in tr.iter().enumerate(), from layer id on
RECURSIVE ScanLayers(_, _, _, _)
ScanLayers(g, t, tt, id) ==
    IF id > Len(t) THEN tt
    ELSE ScanLayers(g, t, ScanItems(g, t, tt, id, 1), id + 1)

\* whether the pass over t sets `changed = true`
AnyMoved(g, t) ==
    \E id \in 1..Len(t) : \E k \in 1..Len(t[id]) : HasDepInLayer(g, t[id], t[id][k])

\* `if !changed_last && changed { break; }`
ExitsLoop(cl, c) == ~cl /\ c

\* The call: the locals before the loop.
layers ==
    /\ pc = "build"
    /\ \E t \in InitialLayers(graph) :
          /\ tr' = t
          /\ temp_tr' = t
    /\ changed' = FALSE
    /\ changed_last' = FALSE
    /\ scans' = 0
    /\ pc' = "scan"
    /\ last' = [op |-> "layers", name |-> None, dep |-> None]
    /\ UNCHANGED <<graph, envvars, labelvars>>

\* One pass of the `loop` body.
Scan ==
    /\ pc = "scan"
    /\ LET tt == ScanLayers(graph, tr, temp_tr, 1)
           c == changed \/ AnyMoved(graph, tr)
       IN /\ temp_tr' = tt
          /\ tr' = tt
          /\ changed' = c
          /\ IF ExitsLoop(changed_last, c)
             THEN /\ pc' = "done"
                  /\ changed_last' = changed_last
             ELSE /\ pc' = "scan"
                  /\ changed_last' = c
    /\ scans' = IF scans < MaxScans THEN scans + 1 ELSE 1
    /\ UNCHANGED <<graph, last, envvars, labelvars>>

DagNext ==
    \/ \E n \in NodeIds, ds \in InitDeps : add_node(n, ds)
    \/ \E n \in NodeIds, d \in NodeIds : add_dep(n, d)
    \/ layers
    \/ Scan

SpecDag == DagInit /\ [][DagNext]_vars

(***************************************************************************)
(* The graphs of the documentation: the diamond of the specification, the  *)
(* two-component graph of the doc-test, the graph of the unit test, and    *)
(* the edge cases: no node, nodes without dependencies, dependencies on    *)
(* unregistered ids only.                                                  *)
(***************************************************************************)
Diamond == [x \in {"a", "b", "c", "d"} |->
              CASE x = "a" -> <<>>
                [] x = "b" -> <<"a">>
                [] x = "c" -> <<"a">>
                [] x = "d" -> <<"b", "c">>]

TwoComponents == [x \in {"a", "b", "c", "d"} |->
              CASE x = "a" -> <<>>
                [] x = "b" -> <<>>
                [] x = "c" -> <<"a">>
                [] x = "d" -> <<"b">>]

UnitTestGraph == [x \in {"a", "b"} |-> IF x = "a" THEN <<>> ELSE <<"a">>]

NoDeps == [x \in {"a", "b", "c", "d"} |-> <<>>]

DanglingOnly == [x \in {"a", "b"} |-> IF x = "a" THEN <<"c">> ELSE <<>>]

ExampleGraphs ==
    {Diamond, TwoComponents, UnitTestGraph, EmptyGraph, NoDeps, DanglingOnly}

ExamplesInit ==
    /\ EnvIdle
    /\ LabelIdle
    /\ graph \in ExampleGraphs
    /\ pc = "build"
    /\ last = NoCall
    /\ tr = <<>>
    /\ temp_tr = <<>>
    /\ changed = FALSE
    /\ changed_last = FALSE
    /\ scans = 0

ExamplesNext ==
    \/ layers
    \/ Scan

\* layers() applied to the graphs of the documentation.
SpecExamples == ExamplesInit /\ [][ExamplesNext]_vars

\* The loop body runs again whenever the loop has not exited.
SpecExamplesFair == SpecExamples /\ WF_vars(Scan)

(***************************************************************************)
(* Paths and command arguments are strings, modelled as sequences of       *)
(* one-character strings.                                                  *)
(***************************************************************************)
Chars == {"/", ":", "\\", "a"}

StringsUpTo(n) == UNION {[1..k -> Chars] : k \in 0..n}

FlagB == <<"-", "b">>
FlagR == <<"-", "r">>
FlagW == <<"-", "w">>
Slash == <<"/">>
NoAllowOther == <<"-", "-", "n", "o", "-", "a", "l", "l", "o", "w", "-", "o", "t", "h", "e", "r">>

\* Option<PathBuf>
NoAlias == [some |-> FALSE, path |-> <<>>]
SomeAlias(p) == [some |-> TRUE, path |-> p]

\* The outcome of a call that hit todo!(): a panic, no value.
Panicked == [ok |-> FALSE, val |-> <<>>]
Ok(v) == [ok |-> TRUE, val |-> v]

(***************************************************************************)
(* Reference::new, Mapping::from_fs, Mapping::from_reference               *)
(***************************************************************************)
Reference(e, file) == [env |-> e, file |-> file]

from_reference(from, alias, read_only) ==
    [from |-> from, alias |-> alias, read_only |-> read_only]

from_fs(from, alias, read_only) == from_reference(Reference(None, from), alias, read_only)

(***************************************************************************)
(* Reference::real_path                                                    *)
(***************************************************************************)
\* Mutant of real_path: a scoped reference resolves to the empty path.
real_path_Empty(ref) ==
    IF ref.env # None THEN [ok |-> TRUE, val |-> <<>>] ELSE [ok |-> TRUE, val |-> ref.file]

real_path(ref) == IF ref.env # None THEN Panicked ELSE Ok(ref.file)

(***************************************************************************)
(* Mapping::to_string                                                      *)
(***************************************************************************)
\* Mutant of EscapeColons: the path is used as it is.
EscapeColons_None(s) == s

\* str::replace(':', "\\:")
RECURSIVE EscapeColons(_)
EscapeColons(s) ==
    IF s = <<>> THEN <<>>
    ELSE (IF Head(s) = ":" THEN <<"\\", ":">> ELSE <<Head(s)>>) \o EscapeColons(Tail(s))

to_string(m) ==
    LET rp == real_path(m.from)
    IN IF ~rp.ok THEN Panicked
       ELSE LET tmp == EscapeColons(rp.val)
            IN Ok(IF m.alias.some THEN tmp \o <<":">> \o m.alias.path ELSE tmp)

(***************************************************************************)
(* Mapping::as_bind                                                        *)
(***************************************************************************)
\* The segments of a path between its separators, from the k-th character.
RECURSIVE Segments(_, _, _)
Segments(p, k, cur) ==
    IF k > Len(p) THEN <<cur>>
    ELSE IF p[k] = "/" THEN <<cur>> \o Segments(p, k + 1, <<>>)
    ELSE Segments(p, k + 1, Append(cur, p[k]))

IsNonEmpty(seg) == seg # <<>>

\* Path::file_name for paths without '.' segments: the last non-empty
\* segment, the empty string when there is none.
FinalComponent(p) ==
    LET segs == SelectSeq(Segments(p, 1, <<>>), IsNonEmpty)
    IN IF segs = <<>> THEN <<>> ELSE segs[Len(segs)]

\* PathBuf::push: an absolute path replaces the buffer; otherwise a
\* separator is added unless the buffer is empty or ends with one.
PathPush(buf, p) ==
    IF p # <<>> /\ Head(p) = "/" THEN p
    ELSE IF buf # <<>> /\ buf[Len(buf)] # "/" THEN buf \o <<"/">> \o p
    ELSE buf \o p

\* Mutant of as_bind: without alias the final component of the source is used.
as_bind_FinalComponent(m, out_dir) ==
    LET mount_path == PathPush(out_dir, IF m.alias.some THEN m.alias.path
                                        ELSE FinalComponent(m.from.file))
        rp == real_path(m.from)
    IN IF ~rp.ok THEN [ok |-> FALSE, val |-> <<>>]
       ELSE [ok |-> TRUE,
             val |-> [program |-> "bindfs",
                      args |-> <<NoAllowOther, FlagR, rp.val, mount_path>>]]

as_bind(m, out_dir) ==
    LET mount_path == PathPush(out_dir, IF m.alias.some THEN m.alias.path ELSE m.from.file)
        rp == real_path(m.from)
    IN IF ~rp.ok THEN Panicked
       ELSE Ok([program |-> "bindfs",
                args |-> <<NoAllowOther, FlagR, rp.val, mount_path>>])

(***************************************************************************)
(* Environment::as_commands                                                *)
(***************************************************************************)
\* Mutant of ForEachInput: every mapping is handed to proot with -b.
RECURSIVE ForEachInput_AllProot(_, _, _, _)
ForEachInput_AllProot(e, k, init_commands, args) ==
    IF k > Len(e.inputs) THEN [ok |-> TRUE, init_commands |-> init_commands, args |-> args]
    ELSE LET s == to_string(e.inputs[k])
         IN IF ~s.ok THEN [ok |-> FALSE, init_commands |-> <<>>, args |-> <<>>]
            ELSE ForEachInput_AllProot(e, k + 1, init_commands, args \o <<FlagB, s.val>>)

\* self.inputs.iter().for_each(..), from the k-th input on
RECURSIVE ForEachInput(_, _, _, _)
ForEachInput(e, k, init_commands, args) ==
    IF k > Len(e.inputs) THEN [ok |-> TRUE, init_commands |-> init_commands, args |-> args]
    ELSE LET file == e.inputs[k]
         IN IF file.read_only
            THEN LET b == as_bind(file, e.loc)
                 IN IF ~b.ok THEN [ok |-> FALSE, init_commands |-> <<>>, args |-> <<>>]
                    ELSE ForEachInput(e, k + 1, Append(init_commands, b.val), args)
            ELSE LET s == to_string(file)
                 IN IF ~s.ok THEN [ok |-> FALSE, init_commands |-> <<>>, args |-> <<>>]
                    ELSE ForEachInput(e, k + 1, init_commands, args \o <<FlagB, s.val>>)

as_commands(e) ==
    LET r == ForEachInput(e, 1, <<>>, <<>>)
    IN IF ~r.ok THEN Panicked
       ELSE Ok(Append(r.init_commands,
                      [program |-> "proot",
                       args |-> <<FlagR, e.loc, FlagW, Slash>> \o r.args]))

(***************************************************************************)
(* Environment::run_command                                                *)
(***************************************************************************)
\* Mutant of run_command: the action's program name is left out.
run_command_NoProgram(e, command) ==
    LET c == as_commands(e)
    IN IF ~c.ok THEN Panicked
       ELSE Ok([c.val EXCEPT ![Len(c.val)].args = @ \o command.args])

run_command(e, command) ==
    LET c == as_commands(e)
    IN IF ~c.ok THEN Panicked
       ELSE Ok([c.val EXCEPT ![Len(c.val)].args = @ \o <<command.program>> \o command.args])

(***************************************************************************)
(* Environment::new over bounded inputs.                                   *)
(***************************************************************************)
\* Identifiers new_v4 may produce, and the identifier of another
\* environment that a reference may be scoped to.
FreshIds == {"E1", "E2"}
OtherEnv == "E0"

RootPaths == {<<"/", "r">>, <<"r", "/">>}

\* Mappings given to an Environment: absolute and relative sources (one
\* with a colon), with and without alias, read-only and writable, and
\* references scoped to another environment.
EnvMappings ==
    {from_fs(src, al, ro) :
        src \in {<<"/", "a">>, <<"a", ":">>},
        al \in {NoAlias, SomeAlias(<<"/", "b">>)},
        ro \in BOOLEAN}
    \cup {from_reference(Reference(OtherEnv, <<"/", "a">>), NoAlias, ro) : ro \in BOOLEAN}

MappingLists == UNION {[1..k -> EnvMappings] : k \in 0..MaxMappings}

new(id, location, inputs) == [id |-> id, loc |-> location, inputs |-> inputs]

\* The commands handed to run_command: a program and its arguments.
ArgStrings == {<<"a">>, <<"-", "b">>}
Actions ==
    {[program |-> pr, args |-> as] :
        pr \in {<<"e">>}, as \in UNION {[1..k -> ArgStrings] : k \in 0..2}}

DagIdle ==
    /\ graph = EmptyGraph
    /\ pc = "build"
    /\ last = NoCall
    /\ tr = <<>>
    /\ temp_tr = <<>>
    /\ changed = FALSE
    /\ changed_last = FALSE
    /\ scans = 0

EnvInit ==
    /\ DagIdle
    /\ LabelIdle
    /\ env \in {new(id, loc, ins) : id \in FreshIds, loc \in RootPaths, ins \in MappingLists}
    /\ ret = NoRet

CallAsCommands ==
    /\ env # NoEnv
    /\ ret' = [op |-> "as_commands", arg |-> None, res |-> as_commands(env)]
    /\ UNCHANGED <<env, dagvars, labelvars>>

CallRunCommand(command) ==
    /\ env # NoEnv
    /\ ret' = [op |-> "run_command", arg |-> command, res |-> run_command(env, command)]
    /\ UNCHANGED <<env, dagvars, labelvars>>

EnvNext ==
    \/ CallAsCommands
    \/ \E command \in Actions : CallRunCommand(command)

SpecEnv == EnvInit /\ [][EnvNext]_vars

(***************************************************************************)
(* A single Mapping, rendered and lowered on its own.                      *)
(***************************************************************************)
\* Every short string, the source and the alias of the unit tests, and a
\* relative source of two components.
PathStrings == StringsUpTo(MaxPathLen) \cup {<<"/", "a", ":", "a">>, <<"a", "/", "a">>}

AliasOptions ==
    {NoAlias} \cup {SomeAlias(p) : p \in StringsUpTo(MaxPathLen) \cup {<<"/", "b">>}}

SingleMappings ==
    {from_reference(Reference(e, src), al, ro) :
        e \in {None, OtherEnv}, src \in PathStrings, al \in AliasOptions, ro \in BOOLEAN}

MappingInit ==
    /\ DagIdle
    /\ LabelIdle
    /\ env \in {new("E1", loc, <<m>>) : loc \in RootPaths, m \in SingleMappings}
    /\ ret = NoRet

CallToString ==
    /\ env # NoEnv
    /\ ret' = [op |-> "to_string", arg |-> None, res |-> to_string(env.inputs[1])]
    /\ UNCHANGED <<env, dagvars, labelvars>>

CallAsBind ==
    /\ env # NoEnv
    /\ ret' = [op |-> "as_bind", arg |-> None, res |-> as_bind(env.inputs[1], env.loc)]
    /\ UNCHANGED <<env, dagvars, labelvars>>

MappingNext ==
    \/ CallToString
    \/ CallAsBind

SpecMapping == MappingInit /\ [][MappingNext]_vars

(***************************************************************************)
(* Vocabulary of the properties.                                           *)
(***************************************************************************)
\* The registered dependencies of a node.
RegDeps(g, n) == Range(g[n]) \cap DOMAIN g

RECURSIVE ReachClosure(_, _)
ReachClosure(g, S) ==
    LET T == S \cup UNION {RegDeps(g, n) : n \in S}
    IN IF T = S THEN S ELSE ReachClosure(g, T)

\* The nodes reachable from n along one or more registered dependencies.
Reaches(g, n) == ReachClosure(g, RegDeps(g, n))

Acyclic(g) == \A n \in DOMAIN g : n \notin Reaches(g, n)

Max(S) == CHOOSE x \in S : \A y \in S : y <= x

\* The number of edges of the longest dependency chain below n (g acyclic).
RECURSIVE Depth(_, _)
Depth(g, n) ==
    IF RegDeps(g, n) = {} THEN 0
    ELSE 1 + Max({Depth(g, d) : d \in RegDeps(g, n)})

\* The 0-based index of the layer that holds n.
LayerOf(t, n) == (CHOOSE i \in 1..Len(t) : Contains(t[i], n)) - 1

\* The number of occurrences of n in all layers of t.
Occurrences(t, n) ==
    Cardinality({p \in (1..Len(t)) \X (1..Cardinality(NodeIds) + 1) :
                    p[2] <= Len(t[p[1]]) /\ t[p[1]][p[2]] = n})

Returned == pc = "done"

(***************************************************************************)
(* C1: on an acyclic graph, in the layering returned by layers() every     *)
(* registered dependency of every node lies in a strictly earlier layer    *)
(* than the node itself.                                                   *)
(***************************************************************************)
C1_DepsInEarlierLayers ==
    (Returned /\ Acyclic(graph)) =>
        \A n \in DOMAIN graph : \A d \in RegDeps(graph, n) :
            LayerOf(tr, d) < LayerOf(tr, n)

(***************************************************************************)
(* C2: for the diamond a:[], b:[a], c:[a], d:[b,c], layers() returns       *)
(* exactly three layers {a}, {b,c}, {d}; on an acyclic graph a node whose  *)
(* longest dependency chain has k edges is placed in layer k.              *)
(***************************************************************************)
C2_LayerIsDepth ==
    (Returned /\ Acyclic(graph)) =>
        /\ \A n \in DOMAIN graph : LayerOf(tr, n) = Depth(graph, n)
        /\ graph = Diamond =>
              /\ Len(tr) = 3
              /\ tr[1] = <<"a">>
              /\ Range(tr[2]) = {"b", "c"} /\ Len(tr[2]) = 2
              /\ tr[3] = <<"d">>

(***************************************************************************)
(* C3: layers() terminates on every acyclic graph: once called, the loop   *)
(* eventually exits.                                                       *)
(***************************************************************************)
C3_LayersTerminates == (pc = "scan" /\ Acyclic(graph)) ~> Returned

(***************************************************************************)
(* C4: when the graph has at least one edge and every dependency points to *)
(* a registered node without dependencies, layers() returns after its      *)
(* first pass with exactly two layers: the nodes without dependencies,     *)
(* then the nodes with dependencies, each once.                            *)
(***************************************************************************)
Flat(g) ==
    /\ \E n \in DOMAIN g : g[n] # <<>>
    /\ \A n \in DOMAIN g : \A i \in 1..Len(g[n]) :
          g[n][i] \in DOMAIN g /\ g[g[n][i]] = <<>>

C4_TwoLayers ==
    Flat(graph) =>
        /\ pc = "scan" => scans = 0
        /\ Returned =>
              /\ Len(tr) = 2
              /\ Range(tr[1]) = {n \in DOMAIN graph : graph[n] = <<>>}
              /\ Range(tr[2]) = {n \in DOMAIN graph : graph[n] # <<>>}
              /\ Len(tr[1]) + Len(tr[2]) = Cardinality(DOMAIN graph)

\* The doc-test graph has been layered (d's edge may come from add_dep).
C4_Witness ==
    /\ Returned
    /\ graph = TwoComponents
    /\ Len(tr) = 2

(***************************************************************************)
(* C5: at the end of every pass of the loop and in the returned value,     *)
(* every registered node occurs in exactly one layer exactly once and no   *)
(* unregistered id occurs in any layer.                                    *)
(***************************************************************************)
C5_Partition ==
    pc \in {"scan", "done"} =>
        /\ \A n \in DOMAIN graph : Occurrences(tr, n) = 1
        /\ \A i \in 1..Len(tr) : Range(tr[i]) \subseteq DOMAIN graph

\* A returned layering of a graph that names an unregistered dependency
\* and in which a node was moved.
C5_Witness ==
    /\ Returned
    /\ Len(tr) = 2 /\ tr[2] # <<>>
    /\ \E n \in DOMAIN graph : Range(graph[n]) \ DOMAIN graph # {}

(***************************************************************************)
(* C6: add_dep(id, dep) on an unregistered id fails and leaves the graph   *)
(* unchanged; on a registered id it succeeds whatever dep is, appends dep  *)
(* at the end of id's list and leaves every other list unchanged.          *)
(***************************************************************************)
C6_AddDep ==
    [][last'.op = "add_dep" =>
        LET n == last'.name
            d == last'.dep
        IN IF n \notin DOMAIN graph
           THEN graph' = graph /\ pc' = "panicked"
           ELSE /\ pc' = "build"
                /\ DOMAIN graph' = DOMAIN graph
                /\ graph'[n] = Append(graph[n], d)
                /\ \A m \in (DOMAIN graph) \ {n} : graph'[m] = graph[m]]_vars

\* add_dep has just succeeded with an unregistered dep that was already in
\* the list of a node, next to another node that has dependencies.
C6_Witness ==
    /\ last.op = "add_dep"
    /\ pc = "build"
    /\ last.dep \notin DOMAIN graph
    /\ Len(graph[last.name]) = 2
    /\ graph[last.name][1] = last.dep
    /\ \E m \in (DOMAIN graph) \ {last.name} : graph[m] # <<>>

\* add_dep has just failed on an unregistered id.
C6_WitnessFailure == last.op = "add_dep" /\ pc = "panicked"

(***************************************************************************)
(* Vocabulary of the environment properties.                               *)
(***************************************************************************)
AllPlain(e) == \A i \in 1..Len(e.inputs) : e.inputs[i].from.env = None

IsReadOnly(m) == m.read_only
IsWritable(m) == ~m.read_only

ReadOnlyOf(e) == SelectSeq(e.inputs, IsReadOnly)
WritableOf(e) == SelectSeq(e.inputs, IsWritable)

IsPrefix(p, s) == Len(p) <= Len(s) /\ SubSeq(s, 1, Len(p)) = p

IsProperPrefix(p, s) == Len(p) < Len(s) /\ IsPrefix(p, s)

(***************************************************************************)
(* C7: for an Environment of plain filesystem mappings, as_commands()      *)
(* returns one bindfs command per read-only mapping, in list order, then   *)
(* exactly one proot command, last; the proot command carries one          *)
(* '-b <rendered mapping>' pair per writable mapping, in list order, and   *)
(* no other '-b' pair.                                                     *)
(***************************************************************************)
C7_CommandOrder ==
    (ret.op = "as_commands" /\ AllPlain(env)) =>
        /\ ret.res.ok
        /\ LET cmds == ret.res.val
               ro == ReadOnlyOf(env)
               rw == WritableOf(env)
               proot == cmds[Len(cmds)]
           IN /\ Len(cmds) = Len(ro) + 1
              /\ \A i \in 1..Len(ro) :
                    /\ cmds[i].program = "bindfs"
                    /\ cmds[i].args[3] = ro[i].from.file
              /\ proot.program = "proot"
              /\ Len(proot.args) = 4 + 2 * Len(rw)
              /\ SubSeq(proot.args, 1, 4) = <<FlagR, env.loc, FlagW, Slash>>
              /\ \A j \in 1..Len(rw) :
                    /\ proot.args[3 + 2 * j] = FlagB
                    /\ proot.args[4 + 2 * j] = to_string(rw[j]).val

\* as_commands has returned for two different read-only mappings, and for
\* a writable mapping listed before a read-only one.
C7_Witness ==
    /\ ret.op = "as_commands"
    /\ AllPlain(env)
    /\ Len(env.inputs) = 2
    /\ \/ /\ env.inputs[1].read_only /\ env.inputs[2].read_only
          /\ env.inputs[1] # env.inputs[2]
       \/ ~env.inputs[1].read_only /\ env.inputs[2].read_only

\* as_commands has returned for two different writable mappings.
C7_WitnessWritable ==
    /\ ret.op = "as_commands"
    /\ AllPlain(env)
    /\ Len(env.inputs) = 2
    /\ ~env.inputs[1].read_only /\ ~env.inputs[2].read_only
    /\ env.inputs[1] # env.inputs[2]

(***************************************************************************)
(* C8: run_command(action) leaves the Environment as it is and returns     *)
(* the commands of as_commands() with the action's program name and then   *)
(* its arguments appended to the last command's arguments.                 *)
(***************************************************************************)
C8_RunCommand ==
    [][(ret'.op = "run_command" /\ AllPlain(env)) =>
        /\ env' = env
        /\ ret'.res.ok
        /\ LET base == as_commands(env).val
               got == ret'.res.val
               n == Len(base)
               action == ret'.arg
           IN /\ Len(got) = n
              /\ \A i \in 1..(n - 1) : got[i] = base[i]
              /\ got[n].program = base[n].program
              /\ Len(got[n].args) = Len(base[n].args) + 1 + Len(action.args)
              /\ SubSeq(got[n].args, 1, Len(base[n].args)) = base[n].args
              /\ got[n].args[Len(base[n].args) + 1] = action.program
              /\ SubSeq(got[n].args, Len(base[n].args) + 2, Len(got[n].args)) = action.args]_vars

\* run_command has returned for an action with two arguments, in an
\* environment with a setup command and a bind argument.
C8_Witness ==
    /\ ret.op = "run_command"
    /\ ret.res.ok
    /\ Len(ret.arg.args) = 2
    /\ ret.arg.args[1] # ret.arg.args[2]
    /\ Len(ReadOnlyOf(env)) = 1
    /\ Len(WritableOf(env)) = 1

(***************************************************************************)
(* C9: to_string renders a filesystem mapping as its source path, each ':' *)
(* of it preceded by a '\', followed by ':' and the alias as it is when    *)
(* there is an alias and by nothing otherwise; a colon-free source without *)
(* alias renders to the source path, whatever read_only is.                *)
(***************************************************************************)
ColonsBefore(p, i) == Cardinality({j \in 1..(i - 1) : p[j] = ":"})

C9_Rendering ==
    (ret.op = "to_string" /\ env.inputs[1].from.env = None) =>
        /\ ret.res.ok
        /\ LET m == env.inputs[1]
               p == m.from.file
               r == ret.res.val
               elen == Len(p) + ColonsBefore(p, Len(p) + 1)
           IN /\ Len(r) = elen + (IF m.alias.some THEN 1 + Len(m.alias.path) ELSE 0)
              /\ \A i \in 1..Len(p) :
                    LET at == i + ColonsBefore(p, i)
                    IN IF p[i] = ":"
                       THEN r[at] = "\\" /\ r[at + 1] = ":"
                       ELSE r[at] = p[i]
              /\ m.alias.some =>
                    /\ r[elen + 1] = ":"
                    /\ SubSeq(r, elen + 2, Len(r)) = m.alias.path
              /\ (ColonsBefore(p, Len(p) + 1) = 0 /\ ~m.alias.some) => r = p

\* to_string has rendered the mapping of the unit test: /a:a with alias /b.
C9_Witness ==
    /\ ret.op = "to_string"
    /\ env.inputs[1] = from_fs(<<"/", "a", ":", "a">>, SomeAlias(<<"/", "b">>), TRUE)
    /\ ret.res = Ok(<<"/", "a", "\\", ":", "a", ":", "/", "b">>)

(***************************************************************************)
(* C10: the mount point of the bindfs command of every read-only mapping   *)
(* (its last argument) has the Environment's root as a proper prefix.      *)
(***************************************************************************)
C10_MountInsideRoot ==
    (ret.op = "as_commands" /\ ret.res.ok) =>
        \A i \in 1..(Len(ret.res.val) - 1) :
            LET args == ret.res.val[i].args
            IN IsProperPrefix(env.loc, args[Len(args)])

(***************************************************************************)
(* C11: a mapping without alias is placed at the final component of its    *)
(* source path under the root (a relative source a/a at root/a); with an   *)
(* alias it is placed at the alias.                                        *)
(***************************************************************************)
IsSuffix(p, s) == Len(p) <= Len(s) /\ SubSeq(s, Len(s) - Len(p) + 1, Len(s)) = p

IsRelative(p) == p = <<>> \/ p[1] # "/"

\* The last argument of the bindfs command that as_bind has returned.
MountPoint == ret.res.val.args[Len(ret.res.val.args)]

\* The components of a path: its non-empty segments.
Components(p) == SelectSeq(Segments(p, 1, <<>>), IsNonEmpty)

\* The claim as stated, for relative sources and relative aliases (where
\* PathBuf::push keeps the root), paths compared component by component.
C11_FinalComponent ==
    (ret.op = "as_bind" /\ ret.res.ok) =>
        LET m == env.inputs[1]
            place == IF m.alias.some THEN m.alias.path ELSE FinalComponent(m.from.file)
        IN IsRelative(m.from.file) /\ IsRelative(m.alias.path) =>
              Components(MountPoint) = Components(env.loc) \o Components(place)

\* As amended: without alias the mount point ends with the whole source
\* path, with an alias it ends with the alias; a relative one is placed
\* right below the root.
C11_WholeSourcePath ==
    (ret.op = "as_bind" /\ ret.res.ok) =>
        LET m == env.inputs[1]
            place == IF m.alias.some THEN m.alias.path ELSE m.from.file
        IN /\ IsSuffix(place, MountPoint)
           /\ IsRelative(place) =>
                 /\ IsPrefix(env.loc, MountPoint)
                 /\ Len(MountPoint) <= Len(env.loc) + 1 + Len(place)

\* as_bind has lowered the alias-free relative source a/a.
C11_Witness ==
    /\ ret.op = "as_bind"
    /\ ret.res.ok
    /\ ~env.inputs[1].alias.some
    /\ env.inputs[1].from.file = <<"a", "/", "a">>
    /\ env.loc = <<"/", "r">>
    /\ MountPoint = <<"/", "r", "/", "a", "/", "a">>

(***************************************************************************)
(* Every call on an Environment and on its mappings.                       *)
(***************************************************************************)
CallRealPathAt(i) ==
    /\ i \in 1..Len(env.inputs)
    /\ ret' = [op |-> "real_path", arg |-> i, res |-> real_path(env.inputs[i].from)]
    /\ UNCHANGED <<env, dagvars, labelvars>>

CallToStringAt(i) ==
    /\ i \in 1..Len(env.inputs)
    /\ ret' = [op |-> "to_string", arg |-> i, res |-> to_string(env.inputs[i])]
    /\ UNCHANGED <<env, dagvars, labelvars>>

CallAsBindAt(i) ==
    /\ i \in 1..Len(env.inputs)
    /\ ret' = [op |-> "as_bind", arg |-> i, res |-> as_bind(env.inputs[i], env.loc)]
    /\ UNCHANGED <<env, dagvars, labelvars>>

EnvCallsNext ==
    \/ CallAsCommands
    \/ \E command \in Actions : CallRunCommand(command)
    \/ \E i \in 1..MaxMappings : CallRealPathAt(i)
    \/ \E i \in 1..MaxMappings : CallToStringAt(i)
    \/ \E i \in 1..MaxMappings : CallAsBindAt(i)

SpecEnvCalls == EnvInit /\ [][EnvCallsNext]_vars

(***************************************************************************)
(* C12: real_path returns the stored path of a reference without owning    *)
(* environment and fails, with no path, for a scoped one; to_string,       *)
(* as_bind, as_commands and run_command fail, with no value, whenever a    *)
(* mapping they touch is scoped to an environment.                         *)
(***************************************************************************)
IsScoped(m) == m.from.env # None

C12_Unsupported ==
    /\ ret.op = "real_path" =>
          IF IsScoped(env.inputs[ret.arg])
          THEN ~ret.res.ok /\ ret.res.val = <<>>
          ELSE ret.res.ok /\ ret.res.val = env.inputs[ret.arg].from.file
    /\ (ret.op \in {"to_string", "as_bind"} /\ IsScoped(env.inputs[ret.arg])) =>
          ~ret.res.ok /\ ret.res.val = <<>>
    /\ (ret.op \in {"as_commands", "run_command"} /\ ~AllPlain(env)) =>
          ~ret.res.ok /\ ret.res.val = <<>>

\* run_command has failed in an environment whose second mapping is scoped
\* and whose first is not.
C12_Witness ==
    /\ ret.op = "run_command"
    /\ ~ret.res.ok
    /\ Len(env.inputs) = 2
    /\ ~IsScoped(env.inputs[1])
    /\ IsScoped(env.inputs[2])

(***************************************************************************)
(* Label::parse: the parsers of the label grammar.  A parser takes the     *)
(* text still to be read and either fails or returns what it matched       *)
(* together with the text that remains.                                    *)
(***************************************************************************)
MaxLabelLen == 2

Lower == {"a", "b", "c", "d", "e", "f", "g", "h", "i", "j", "k", "l", "m",
          "n", "o", "p", "q", "r", "s", "t", "u", "v", "w", "x", "y", "z"}

Upper == {"A", "B", "C", "D", "E", "F", "G", "H", "I", "J", "K", "L", "M",
          "N", "O", "P", "Q", "R", "S", "T", "U", "V", "W", "X", "Y", "Z"}

Digits == {"0", "1", "2", "3", "4", "5", "6", "7", "8", "9"}

\* [a-zA-Z0-9!%@^_#"$&'()*\-+,;<=>?\[\]{|}~/. ]
TargetClass ==
    Lower \cup Upper \cup Digits \cup
    {"!", "%", "@", "^", "_", "#", "\"", "$", "&", "'", "(", ")", "*", "-",
     "+", ",", ";", "<", "=", ">", "?", "[", "]", "{", "|", "}", "~", "/",
     ".", " "}

\* [-A-Za-z0-9\/._]
RepositoryClass == Lower \cup Upper \cup Digits \cup {"-", "/", ".", "_"}

\* [^\n$:]
PackageExcluded == {"\n", "$", ":"}

NoMatch == [ok |-> FALSE, rest |-> <<>>, val |-> <<>>]
Matched(rest, val) == [ok |-> TRUE, rest |-> rest, val |-> val]

Drop(i, n) == SubSeq(i, n + 1, Len(i))

\* nom tag
tag(t, i) == IF IsPrefix(t, i) THEN Matched(Drop(i, Len(t)), t) ELSE NoMatch

\* nom_regex re_match with a pattern ^[class]+ : when the pattern matches,
\* that is when the text starts with a character of the class, the WHOLE
\* text is returned as the match and nothing remains.
re_match(class, i) ==
    IF i # <<>> /\ i[1] \in class THEN Matched(<<>>, i) ELSE NoMatch

target(i) == re_match(TargetClass, i)

repository(repo) == re_match(RepositoryClass, repo)

\* The position of the first ':' of the text, one past its end without one.
FirstColon(i) ==
    IF \E k \in 1..Len(i) : i[k] = ":"
    THEN CHOOSE k \in 1..Len(i) : i[k] = ":" /\ \A j \in 1..(k - 1) : i[j] # ":"
    ELSE Len(i) + 1

\* fre_match with ^[^\n$:]+?(?=:(?:.|\s)+$|$) : the shortest non-empty run
\* of allowed characters that is followed by the end of the text or by a
\* ':' with at least one character after it.  Only the run is consumed.
package(pkg) ==
    LET c == FirstColon(pkg)
        n == c - 1
    IN IF /\ n >= 1
          /\ \A j \in 1..n : pkg[j] \notin PackageExcluded
          /\ (c > Len(pkg) \/ c < Len(pkg))
       THEN Matched(Drop(pkg, n), SubSeq(pkg, 1, n))
       ELSE NoMatch

\* Mutant of root: only the exact marker is a root.
root_ExactOnly(input) == tag(<<"!", "/">>, input)

\* alt((tag("//"), tag("!/")))
root(input) ==
    IF tag(<<"/", "/">>, input).ok THEN tag(<<"/", "/">>, input)
    ELSE tag(<<"!", "/">>, input)

\* Option<&str>, an entry of hmap
NoField == [some |-> FALSE, val |-> <<>>]
Some(v) == [some |-> TRUE, val |-> v]

\* HashMap::new()
EmptyMap ==
    [repository |-> NoField, separator |-> NoField, package |-> NoField,
     target |-> NoField]

\* opt(preceded(tag(":"), target))
OptTarget(i) ==
    LET colon == tag(<<":">>, i)
        t == IF colon.ok THEN target(colon.rest) ELSE NoMatch
    IN IF t.ok THEN Matched(t.rest, Some(t.val)) ELSE Matched(i, NoField)

\* opt(root)
OptRoot(i) ==
    IF root(i).ok THEN Matched(root(i).rest, Some(root(i).val))
    ELSE Matched(i, NoField)

\* alt((package, preceded(tag(":"), target), pair(package, preceded(...))))
PackageAndOrTarget(i) ==
    LET p == package(i)
        colon == tag(<<":">>, i)
        t == IF colon.ok THEN target(colon.rest) ELSE NoMatch
        colon3 == IF p.ok THEN tag(<<":">>, p.rest) ELSE NoMatch
        t3 == IF colon3.ok THEN target(colon3.rest) ELSE NoMatch
    IN IF p.ok THEN Matched(p.rest, [EmptyMap EXCEPT !.package = Some(p.val)])
       ELSE IF t.ok THEN Matched(t.rest, [EmptyMap EXCEPT !.target = Some(t.val)])
       ELSE IF t3.ok
            THEN Matched(t3.rest, [EmptyMap EXCEPT !.package = Some(p.val),
                                                   !.target = Some(t3.val)])
       ELSE NoMatch

\* all_consuming
AllConsuming(r) == IF r.ok /\ r.rest = <<>> THEN r ELSE NoMatch

\* First alternative: '@' repository root, then a package or a target.
QualifiedEither(lbl) ==
    LET at == tag(<<"@">>, lbl)
        repo == IF at.ok THEN repository(at.rest) ELSE NoMatch
        sep == IF repo.ok THEN root(repo.rest) ELSE NoMatch
        pt == IF sep.ok THEN PackageAndOrTarget(sep.rest) ELSE NoMatch
    IN IF pt.ok
       THEN AllConsuming(Matched(pt.rest,
                [pt.val EXCEPT !.repository = Some(repo.val),
                               !.separator = Some(sep.val)]))
       ELSE NoMatch

\* Second alternative: '@' repository root package, then maybe ':' target.
QualifiedFull(lbl) ==
    LET at == tag(<<"@">>, lbl)
        repo == IF at.ok THEN repository(at.rest) ELSE NoMatch
        sep == IF repo.ok THEN root(repo.rest) ELSE NoMatch
        p == IF sep.ok THEN package(sep.rest) ELSE NoMatch
        t == OptTarget(p.rest)
    IN IF p.ok
       THEN AllConsuming(Matched(t.rest,
                [EmptyMap EXCEPT !.repository = Some(repo.val),
                                 !.separator = Some(sep.val),
                                 !.package = Some(p.val),
                                 !.target = t.val]))
       ELSE NoMatch

\* Third alternative: maybe a root, a package, then maybe ':' target.
Unqualified(lbl) ==
    LET sep == OptRoot(lbl)
        p == package(sep.rest)
        t == OptTarget(p.rest)
    IN IF p.ok
       THEN AllConsuming(Matched(t.rest,
                [EmptyMap EXCEPT !.separator = sep.val,
                                 !.package = Some(p.val),
                                 !.target = t.val]))
       ELSE NoMatch

\* Fourth alternative: maybe a ':', then a target.
LoneTarget(lbl) ==
    LET colon == tag(<<":">>, lbl)
        t == target(IF colon.ok THEN colon.rest ELSE lbl)
    IN IF t.ok
       THEN AllConsuming(Matched(t.rest, [EmptyMap EXCEPT !.target = Some(t.val)]))
       ELSE NoMatch

\* terminated(alt((...)), eof): the first alternative that succeeds.
Grammar(lbl) ==
    IF QualifiedEither(lbl).ok THEN QualifiedEither(lbl)
    ELSE IF QualifiedFull(lbl).ok THEN QualifiedFull(lbl)
    ELSE IF Unqualified(lbl).ok THEN Unqualified(lbl)
    ELSE LoneTarget(lbl)

\* Result<Label, String>
Err(e) == [ok |-> FALSE, err |-> e]
Resolved(r, p, t) == [ok |-> TRUE, repository |-> r, package |-> p, target |-> t]

\* str::split("/").last()
LastSegment(s) == Segments(s, 1, <<>>)[Len(Segments(s, 1, <<>>))]

\* let repo = hmap.get("repository").unwrap_or(&current_repository)
RepoOf(hmap, current_repository) ==
    IF hmap.repository.some THEN hmap.repository.val ELSE current_repository

\* let target = match hmap.get("target") { ... }
TargetOf(hmap, repo) ==
    IF hmap.target.some THEN Some(hmap.target.val)
    ELSE IF Len(repo) = 0 \/ Len(Segments(repo, 1, <<>>)) = 0 THEN NoField
    ELSE Some(LastSegment(repo))

\* Mutant of PackageOf: a package given without root is always joined.
PackageOf_AlwaysJoined(hmap, current_package) ==
    IF hmap.separator.some /\ hmap.package.some THEN hmap.package.val
    ELSE IF hmap.package.some THEN PathPush(current_package, hmap.package.val)
    ELSE current_package

\* package: if hmap.contains_key("separator") && ... { ... }
PackageOf(hmap, current_package) ==
    IF hmap.separator.some /\ hmap.package.some THEN hmap.package.val
    ELSE IF hmap.package.some
         THEN IF current_package = <<".">> THEN hmap.package.val
              ELSE PathPush(current_package, hmap.package.val)
    ELSE current_package

parse(lbl, current_repository, current_package) ==
    LET g == Grammar(lbl)
        repo == RepoOf(g.val, current_repository)
        t == TargetOf(g.val, repo)
    IN IF ~g.ok THEN Err("Parsing Error")
       ELSE IF ~t.some THEN Err("Target must be explicitly specified")
       ELSE Resolved(repo, PackageOf(g.val, current_package), t.val)

\* Label::new
Label_new(lbl, current_repository, current_package) ==
    parse(lbl, current_repository, current_package)

(***************************************************************************)
(* Label::new called once on a label text in a context.                    *)
(***************************************************************************)
LabelAlphabet == {"@", "/", "!", ":", ".", "a", "$"}

RepoNames == {<<"o">>}
PkgNames ==
    {<<"a">>, <<"a", "/", "b">>, <<"a", "/", ".", ".", "/", "b">>,
     <<".", "/", "a">>, <<".", ".">>, <<"/", "a">>}
TargetNames == {<<"t">>}

RepoPrefixes == {<<>>} \cup {<<"@">> \o o : o \in RepoNames}
RootMarkers == {<<"/", "/">>, <<"!", "/">>}
TargetSuffixes == {<<>>, <<":">>} \cup {<<":">> \o t : t \in TargetNames}

\* Every short text over the alphabet, and every text put together from an
\* optional repository, an optional root, an optional package and an
\* optional target.
LabelTexts ==
    UNION {[1..k -> LabelAlphabet] : k \in 0..MaxLabelLen}
    \cup {o \o m \o p \o t : o \in RepoPrefixes, m \in RootMarkers \cup {<<>>},
                             p \in PkgNames \cup {<<>>}, t \in TargetSuffixes}

CurrentRepositories == {<<"r">>, <<"r", "/", "s">>, <<>>}
CurrentPackages == {<<"p">>, <<".">>, <<>>, <<"p", "/">>, <<"p", "/", "q">>}

LabelInit ==
    /\ DagIdle
    /\ EnvIdle
    /\ label \in {[op |-> "none", text |-> l, current_repository |-> r,
                   current_package |-> p] :
                     l \in LabelTexts, r \in CurrentRepositories, p \in CurrentPackages}

CallLabelNew ==
    /\ label.op = "none"
    /\ label' = [op |-> "new", text |-> label.text,
                 current_repository |-> label.current_repository,
                 current_package |-> label.current_package,
                 res |-> Label_new(label.text, label.current_repository,
                                   label.current_package)]
    /\ UNCHANGED <<dagvars, envvars>>

LabelNext == CallLabelNew

SpecLabel == LabelInit /\ [][LabelNext]_vars

(***************************************************************************)
(* Vocabulary of the label claims.                                         *)
(***************************************************************************)
\* Label::new has been called on the text and has returned.
Called == label.op = "new"

\* ... in a context that names a current repository and a current package.
InContext ==
    Called /\ label.current_repository # <<>> /\ label.current_package # <<>>

RelativeFragments == {sub \in PkgNames : IsRelative(sub)}

EndsWithSlash(p) == p # <<>> /\ p[Len(p)] = "/"

\* No segment of the path is "." or "..".
IsNormalized(p) ==
    \A k \in 1..Len(Segments(p, 1, <<>>)) :
        Segments(p, 1, <<>>)[k] \notin {<<".">>, <<".", ".">>}

(***************************************************************************)
(* C13: a fully qualified label "@other//pkg:t" resolves to repository     *)
(* other, package pkg and target t, whatever the (non-empty) current       *)
(* repository and current package are.                                     *)
(***************************************************************************)
C13_FullyQualified ==
    \A o \in RepoNames, pkg \in PkgNames, t \in TargetNames :
        (InContext /\ label.text = <<"@">> \o o \o <<"/", "/">> \o pkg \o <<":">> \o t)
            => label.res = Resolved(o, pkg, t)

(***************************************************************************)
(* C14: in a context with a current repository and a current package, a    *)
(* label that names a package and no target resolves, and its target is    *)
(* the last segment of the package it resolved to.                         *)
(***************************************************************************)
C14_DefaultTarget ==
    \A m \in RootMarkers \cup {<<>>}, pkg \in PkgNames :
        (InContext /\ label.text = m \o pkg) =>
            /\ label.res.ok
            /\ label.res.target = LastSegment(label.res.package)

(***************************************************************************)
(* C15 as stated: with a non-empty current repository r and a non-empty    *)
(* current package p, ":t" resolves to r, p, t, and "sub:t" resolves to r, *)
(* t and a package made of the components of p followed by those of sub:   *)
(* the fragment is appended to the current package, never substituted.     *)
(***************************************************************************)
C15_AlwaysAppended ==
    InContext =>
        \A t \in TargetNames :
            /\ label.text = <<":">> \o t =>
                  label.res = Resolved(label.current_repository,
                                       label.current_package, t)
            /\ \A sub \in RelativeFragments :
                  label.text = sub \o <<":">> \o t =>
                      /\ label.res.ok
                      /\ label.res.repository = label.current_repository
                      /\ label.res.target = t
                      /\ Components(label.res.package)
                            = Components(label.current_package) \o Components(sub)

(***************************************************************************)
(* C15 amended: with a non-empty current repository r and a non-empty      *)
(* current package p, ":t" resolves to r, p, t, and "sub:t" resolves to r  *)
(* and t; its package is sub alone when p is "." or sub starts with '/',   *)
(* and otherwise p, one '/' unless p ends with one, and sub.               *)
(***************************************************************************)
C15_AppendedUnlessDot ==
    InContext =>
        \A t \in TargetNames :
            /\ label.text = <<":">> \o t =>
                  label.res = Resolved(label.current_repository,
                                       label.current_package, t)
            /\ \A sub \in PkgNames :
                  label.text = sub \o <<":">> \o t =>
                      /\ label.res.ok
                      /\ label.res.repository = label.current_repository
                      /\ label.res.target = t
                      /\ label.res.package =
                            IF label.current_package = <<".">> \/ ~IsRelative(sub)
                            THEN sub
                            ELSE IF EndsWithSlash(label.current_package)
                                 THEN label.current_package \o sub
                            ELSE label.current_package \o <<"/">> \o sub

\* "a/b:t" has been resolved in the current package ".": the package is
\* "a/b" alone.
C15_Witness ==
    /\ Called
    /\ label.text = <<"a", "/", "b", ":", "t">>
    /\ label.current_repository = <<"r">>
    /\ label.current_package = <<".">>
    /\ label.res = Resolved(<<"r">>, <<"a", "/", "b">>, <<"t">>)

\* "a/b:t" has been resolved in the current package "p/q": the package is
\* "p/q/a/b".
C15_WitnessJoined ==
    /\ Called
    /\ label.text = <<"a", "/", "b", ":", "t">>
    /\ label.current_package = <<"p", "/", "q">>
    /\ label.res.ok
    /\ label.res.package = <<"p", "/", "q", "/", "a", "/", "b">>

(***************************************************************************)
(* C16: a label "//pkg:t" resolves to the current repository, the package  *)
(* pkg and the target t, whatever the current package is.                  *)
(***************************************************************************)
C16_RootRelative ==
    \A pkg \in PkgNames, t \in TargetNames :
        (Called /\ label.text = <<"/", "/">> \o pkg \o <<":">> \o t)
            => label.res = Resolved(label.current_repository, pkg, t)

\* "//a/b:t" has been resolved in repository "r/s" and package "p/q".
C16_Witness ==
    /\ Called
    /\ label.text = <<"/", "/", "a", "/", "b", ":", "t">>
    /\ label.current_repository = <<"r", "/", "s">>
    /\ label.current_package = <<"p", "/", "q">>
    /\ label.res = Resolved(<<"r", "/", "s">>, <<"a", "/", "b">>, <<"t">>)

(***************************************************************************)
(* C17: a label text made of an optional "@repository" and an optional     *)
(* root marker, with neither package nor target after them, is rejected,   *)
(* here in a context with a current repository and a current package.      *)
(***************************************************************************)
C17_RejectsBareRoot ==
    \A o \in RepoPrefixes, m \in RootMarkers \cup {<<>>} :
        (InContext /\ label.text = o \o m) => ~label.res.ok

(***************************************************************************)
(* C18: resolved in a non-empty current package without "." and ".."       *)
(* segments, a label that resolves has a package without "." and ".."      *)
(* segments.                                                               *)
(***************************************************************************)
C18_Normalized ==
    (InContext /\ label.res.ok /\ IsNormalized(label.current_package))
        => IsNormalized(label.res.package)

(***************************************************************************)
(* C19: the loop of layers() exits only at the end of a pass that moved no *)
(* node: when it exits, the pass just made found no node with a dependency *)
(* in its own layer and left the layers as they were.                      *)
(***************************************************************************)
\* Some node of layering t has a dependency in its own layer.
Unsettled(g, t) ==
    \E i \in 1..Len(t) : \E k \in 1..Len(t[i]) :
        Range(g[t[i][k]]) \cap Range(t[i]) # {}

C19_ExitsAfterQuietPass ==
    [][(pc = "scan" /\ pc' = "done" /\ Acyclic(graph)) =>
          (~Unsettled(graph, tr) /\ tr' = tr)]_vars

(***************************************************************************)
(* C20: two filesystem mappings that differ in source path or in alias     *)
(* never render to the same string (aliases, when present, not empty).     *)
(***************************************************************************)
HasProperAlias(m) == m.alias.some => m.alias.path # <<>>

\* The filesystem mappings a rendering is compared with.
PlainMappings ==
    {m \in {from_fs(src, al, FALSE) : src \in PathStrings, al \in AliasOptions} :
        HasProperAlias(m)}

C20_Unambiguous ==
    (ret.op = "to_string" /\ ret.res.ok /\ HasProperAlias(env.inputs[1])) =>
        \A m2 \in PlainMappings :
            to_string(m2) = ret.res =>
                /\ m2.from.file = env.inputs[1].from.file
                /\ m2.alias = env.inputs[1].alias

====
